---------------------------- MODULE Spec2Model ----------------------------
(***************************************************************************)
(* Model of the Mullvad server ping tester.                                *)
(*                                                                         *)
(* The repository holds two implementations of the probing engine: the     *)
(* CommonJS module src/pingService.js driven by src/index.js, and the      *)
(* TypeScript PingService class driven by the Application class.  The      *)
(* variable impl says which of the two a behaviour runs ("js" or "ts").    *)
(*                                                                         *)
(* One step of the model is one turn of the Node.js event loop: a callback *)
(* together with every promise continuation (microtask) it triggers.       *)
(***************************************************************************)
EXTENDS Integers, Sequences, FiniteSets, TLC

(***************************************************************************)
(* Bounds of the model.                                                    *)
(***************************************************************************)
MaxServers == 3
MaxRetries == 1
MaxConcurrentPings == 2
MaxThreadsBound == 1

(***************************************************************************)
(* Constants of the program.                                               *)
(***************************************************************************)
UNREACHABLE_PING == 9999
GOOD == 50
MEDIUM == 100
\* JavaScript null, as the ping of an unreachable result of the TS service
NULL == -1
\* os.cpus().length of the machine the model runs on
CpuCount == 1

Impls == {"js", "ts"}

(***************************************************************************)
(* What ping.promise.probe can answer: a rejection, a result that is not   *)
(* alive, or an alive result with a round-trip time and a packet loss.     *)
(***************************************************************************)
Latencies == {20, 75, 12000}
PacketLosses == {0, 50}
ProbeReplies ==
    {[kind |-> "throws", time |-> 0, packetLoss |-> 0],
     [kind |-> "dead", time |-> 0, packetLoss |-> 100]}
    \cup {[kind |-> "alive", time |-> t, packetLoss |-> p] :
              t \in Latencies, p \in PacketLosses}

VARIABLES
    impl,           \* which implementation runs
    config,         \* the configuration object (PING_RETRIES, CONCURRENT_PINGS, MAX_THREADS)
    servers,        \* the input list of pingAllServers
    runState,       \* "init", "running", "returned", "rejected"
    concurrency,    \* the limit handed to pLimit
    total,          \* servers.length
    pc,             \* per task: "queued", "attempting", "done", "rejected"
    retryCount,     \* per task: the retryCount argument of the current pingServer call
    outcome,        \* per task: the result pingServer resolved with
    probeCalls,     \* per task: calls of ping.promise.probe made so far
    probeFails,     \* per task: calls that threw or answered not alive
    probesInFlight, \* per endpoint: prober calls made and not yet answered
    launches,       \* per endpoint: how often p-limit ran a task for it
    queue,          \* p-limit: the tasks waiting for a slot, in FIFO order
    activeCount,    \* p-limit: the tasks holding a slot
    completed,      \* progress counter
    successful,     \* progress counter
    failed,         \* progress counter
    clock,          \* the number of results created so far (orders the timestamps)
    results,        \* the array pingAllServers resolved with
    sortedResults,  \* the sorted array
    statistics,     \* what generateStatistics made of the results
    cancelledAt,    \* the number of outcomes collected when the caller interrupted the run
    timeArg,        \* the argument of a getPingStatus call
    pingStatus,     \* what that call returned
    argv,           \* the options given on the command line ("" for an option not given)
    configModule,   \* the object exported by the config module
    pingServiceConsts, \* the constants pingService.js destructured from it when loaded
    fetcherConsts,  \* the constants serverFetcher.js destructured from it when loaded
    cliPc,          \* "start", "loaded", "parsed", "ran"
    used,           \* the settings the run that followed worked with
    fetchPc,        \* fetchServersFromAPI: "idle", "requesting", "waiting", "readingCache", "returned"
    retriesArg,     \* the retries argument of the outermost fetchServersFromAPI call
    fetchRetriesLeft, \* the retries argument of the current call
    requestsMade,   \* axios.get calls issued so far
    requestsFailed, \* axios.get calls that ended in the catch block so far
    cacheReads,     \* loadServersFromCache calls so far
    lastResponse,   \* the answer to the latest axios.get
    cacheFile,      \* .cache/servers.json
    fetched,        \* what fetchServersFromAPI resolved with
    fetchSettled,   \* its promise: "pending", "fulfilled" or "rejected"
    currentResults, \* compareWithPrevious: its first argument
    previousResults, \* its second argument
    comparison,     \* what it returned
    comparePc,      \* "off", "called", "done"
    filterInput,    \* filterServers: its argument
    countryFilter,  \* COUNTRY_FILTER
    cityFilter,     \* CITY_FILTER
    filtered,       \* what it returned
    filterPc,       \* "off", "called", "done"
    runNo,          \* main: the number of the execution under way, 0 before the first
    mainPc,         \* "off", "idle", "pinged", "compared", "saved", "noServers"
    wallClock,      \* the time of day in seconds
    disk,           \* the result files in SAVE_PATH
    baseline,       \* what loadPreviousResults returned: a run number, 0 for null
    lastSavedRun,   \* the latest execution that saved its results, 0 for none
    fetchRuns,      \* the fetchServers calls started so far
    cacheWrites,    \* the times saveServersToCache wrote the cache file
    historyDir,     \* the names of the history files, as their timestamps
    historyLimit,   \* config.MAX_HISTORY_FILES
    historyClock,   \* the second new Date() gives saveToHistory
    saveCount,      \* the saveToHistory calls completed
    lastSaved,      \* the file the last call named
    lastDeleted,    \* the files the last call unlinked
    lastOutcome     \* whether the last call wrote its file and finished its cleanup

\* the state of a run of pingAllServers and of its caller
runVars == <<impl, config, servers, runState, concurrency, total, pc, retryCount,
             outcome, probeCalls, probeFails, probesInFlight, launches, queue,
             activeCount, completed, successful, failed, clock, results,
             sortedResults, statistics, cancelledAt>>
\* the state of a getPingStatus call
statusVars == <<timeArg, pingStatus>>
\* the state of the start of the program: module loading and argument parsing
cliVars == <<argv, configModule, pingServiceConsts, fetcherConsts, cliPc, used>>
\* the state of a fetchServersFromAPI call
fetchVars == <<fetchPc, retriesArg, fetchRetriesLeft, requestsMade, requestsFailed,
               cacheReads, lastResponse, cacheFile, fetched, fetchSettled>>
\* the state of a compareWithPrevious call
compareVars == <<currentResults, previousResults, comparison, comparePc>>
\* the state of a filterServers call
filterVars == <<filterInput, countryFilter, cityFilter, filtered, filterPc>>
\* the state of successive executions of main
mainVars == <<runNo, mainPc, wallClock, disk, baseline, lastSavedRun>>
\* the state of successive fetchServers calls
cachingVars == <<fetchRuns, cacheWrites>>
\* the state of successive saveToHistory calls
historyVars == <<historyDir, historyLimit, historyClock, saveCount, lastSaved, lastDeleted,
                 lastOutcome>>
\* the state of the other stages of the program
lateVars == <<compareVars, filterVars, mainVars, cachingVars, historyVars>>
\* everything but the run
notRunVars == <<statusVars, cliVars, fetchVars, lateVars>>

vars == <<runVars, notRunVars>>

\* the slot of a task that has not resolved yet
NoResult ==
    [hostname |-> 0, ping |-> NULL, packetLoss |-> 0, status |-> "none",
     timestamp |-> 0]

Indices == 1..Len(servers)

\* JavaScript undefined, where a result is expected
undefined == NoResult

\* the statistics of a program that computes none
NoStatistics == [totalServers |-> NULL]

(***************************************************************************)
(* pingServer and its helpers.                                             *)
(***************************************************************************)
getPingStatus(pingTime) ==
    IF pingTime < GOOD THEN "good"
    ELSE IF pingTime < MEDIUM THEN "medium"
    ELSE "bad"

\* createUnreachableResult copying a reachable result's defaults
createUnreachableResultNoLoss(im, server, now) ==
    [hostname   |-> server.hostname,
     ping       |-> IF im = "js" THEN UNREACHABLE_PING ELSE NULL,
     packetLoss |-> 0,
     status     |-> "unreachable",
     timestamp  |-> now]

createUnreachableResult(im, server, now) ==
    [hostname   |-> server.hostname,
     ping       |-> IF im = "js" THEN UNREACHABLE_PING ELSE NULL,
     packetLoss |-> 100,
     status     |-> "unreachable",
     timestamp  |-> now]

\* the object returned when result.alive
AliveResult(server, reply, now) ==
    [hostname   |-> server.hostname,
     ping       |-> reply.time,
     packetLoss |-> reply.packetLoss,
     status     |-> getPingStatus(reply.time),
     timestamp  |-> now]

\* AfterProbe with the catch block rethrowing once the retries are used up
AfterProbeRethrow(reply, retries) ==
    IF reply.kind = "alive" THEN "alive"
    ELSE IF reply.kind = "dead"
         THEN (IF retries > 0 THEN "retry" ELSE "unreachable")
         ELSE (IF retries > 0 THEN "retry" ELSE "throw")

\* AfterProbe giving up one retry early
AfterProbeOffByOne(reply, retries) ==
    IF reply.kind = "alive" THEN "alive"
    ELSE IF retries > 1 THEN "retry" ELSE "unreachable"

\* What one pingServer call does once its probe has answered:
\* resolve with a result, call itself with one retry less, or reject.
AfterProbe(reply, retries) ==
    IF reply.kind = "alive" THEN "alive"
    ELSE IF reply.kind = "dead"
         THEN (IF retries > 0 THEN "retry" ELSE "unreachable")
         ELSE (IF retries > 0 THEN "retry" ELSE "unreachable")

\* HasServerIP probing whatever the record holds
HasServerIPAlways(server) == TRUE

\* the serverIP test at the head of pingServer
HasServerIP(server) == server.hasIP

(***************************************************************************)
(* pingAllServers.                                                         *)
(***************************************************************************)
\* EffectiveConcurrency defaulting to one thread per processing unit
EffectiveConcurrencyNoDouble(cfg, cpuCount) ==
    LET maxThreads == IF cfg.MAX_THREADS > 0 THEN cfg.MAX_THREADS ELSE cpuCount
    IN  IF cfg.CONCURRENT_PINGS < maxThreads THEN cfg.CONCURRENT_PINGS ELSE maxThreads

EffectiveConcurrency(cfg, cpuCount) ==
    LET maxThreads == IF cfg.MAX_THREADS > 0 THEN cfg.MAX_THREADS ELSE cpuCount * 2
    IN  IF cfg.CONCURRENT_PINGS < maxThreads THEN cfg.CONCURRENT_PINGS ELSE maxThreads

\* the test of updateProgress that decides between successful++ and failed++
CountsAsSuccessful(im, result) ==
    IF im = "js" THEN result.ping < UNREACHABLE_PING
    ELSE result.ping # NULL /\ result.ping < UNREACHABLE_PING

\* CanAdmit letting one task too many in
CanAdmitOffByOne(active, limit) == active <= limit

\* p-limit starts a queued function while it has a free slot
CanAdmit(active, limit) == active < limit

\* The scheduler state that one event-loop turn transforms.
Sched ==
    [pc |-> pc, retryCount |-> retryCount, outcome |-> outcome,
     probeCalls |-> probeCalls, probeFails |-> probeFails,
     probesInFlight |-> probesInFlight, launches |-> launches, queue |-> queue,
     activeCount |-> activeCount, completed |-> completed,
     successful |-> successful, failed |-> failed, clock |-> clock,
     aborted |-> FALSE]

\* Settle keeping the slot of the task
SettleKeepSlot(s, i, result) ==
    [s EXCEPT !.pc[i] = "done",
              !.outcome[i] = result,
              !.clock = @ + 1,
              !.completed = @ + 1,
              !.successful = IF CountsAsSuccessful(impl, result) THEN @ + 1 ELSE @,
              !.failed = IF CountsAsSuccessful(impl, result) THEN @ ELSE @ + 1]

\* Settle counting a result twice
SettleTwice(s, i, result) ==
    [s EXCEPT !.pc[i] = "done",
              !.outcome[i] = result,
              !.clock = @ + 1,
              !.completed = @ + 2,
              !.successful = IF CountsAsSuccessful(impl, result) THEN @ + 1 ELSE @,
              !.failed = IF CountsAsSuccessful(impl, result) THEN @ ELSE @ + 1,
              !.activeCount = @ - 1]

\* updateProgress(result), then p-limit's next(): the slot is given back
Settle(s, i, result) ==
    [s EXCEPT !.pc[i] = "done",
              !.outcome[i] = result,
              !.clock = @ + 1,
              !.completed = @ + 1,
              !.successful = IF CountsAsSuccessful(impl, result) THEN @ + 1 ELSE @,
              !.failed = IF CountsAsSuccessful(impl, result) THEN @ ELSE @ + 1,
              !.activeCount = @ - 1]

\* pingServer rejects: updateProgress is skipped, p-limit still gives the
\* slot back, and Promise.all rejects
Reject(s, i) ==
    [s EXCEPT !.pc[i] = "rejected",
              !.activeCount = @ - 1,
              !.aborted = TRUE]

\* Launch sending two probes at once
LaunchTwoProbes(s, i) ==
    LET t == [s EXCEPT !.activeCount = @ + 1, !.retryCount[i] = config.PING_RETRIES,
                       !.launches[i] = @ + 1]
    IN  IF HasServerIP(servers[i])
        THEN [t EXCEPT !.pc[i] = "attempting", !.probeCalls[i] = @ + 2,
                       !.probesInFlight[i] = @ + 2]
        ELSE Settle(t, i, createUnreachableResult(impl, servers[i], t.clock))

\* p-limit runs the function of task i: pingServer(server) up to its first await
Launch(s, i) ==
    LET t == [s EXCEPT !.activeCount = @ + 1, !.retryCount[i] = config.PING_RETRIES,
                       !.launches[i] = @ + 1]
    IN  IF HasServerIP(servers[i])
        THEN [t EXCEPT !.pc[i] = "attempting", !.probeCalls[i] = @ + 1,
                       !.probesInFlight[i] = @ + 1]
        ELSE Settle(t, i, createUnreachableResult(impl, servers[i], t.clock))

\* Dequeue taking the task queued last
DequeueNewest(q) == [next |-> q[Len(q)], rest |-> SubSeq(q, 1, Len(q) - 1)]

\* queue.dequeue() of p-limit: the task queued first leaves the queue
Dequeue(q) == [next |-> Head(q), rest |-> Tail(q)]

\* p-limit hands free slots to the head of its queue (the state t after
\* one launch is drawn from a singleton so that it is computed once)
RECURSIVE Drain(_, _)
Drain(s, limit) ==
    IF s.queue # <<>> /\ CanAdmit(s.activeCount, limit)
    THEN CHOOSE r \in {Drain(t, limit) :
                         t \in {Launch([s EXCEPT !.queue = Dequeue(@).rest],
                                        Dequeue(s.queue).next)}} : TRUE
    ELSE s

\* the continuation of pingServer after `await ping.promise.probe(...)`
Continue(s, i, reply) ==
    LET a == [s EXCEPT !.probesInFlight[i] = @ - 1]
        f == IF reply.kind = "alive" THEN a
             ELSE [a EXCEPT !.probeFails[i] = @ + 1]
        step == AfterProbe(reply, s.retryCount[i])
    IN  CASE step = "alive" ->
                Settle(f, i, AliveResult(servers[i], reply, f.clock))
          [] step = "retry" ->
                [f EXCEPT !.retryCount[i] = @ - 1, !.probeCalls[i] = @ + 1,
                          !.probesInFlight[i] = @ + 1]
          [] step = "unreachable" ->
                Settle(f, i, createUnreachableResult(impl, servers[i], f.clock))
          [] OTHER -> Reject(f, i)

Install(s) ==
    /\ pc' = s.pc
    /\ retryCount' = s.retryCount
    /\ outcome' = s.outcome
    /\ probeCalls' = s.probeCalls
    /\ probeFails' = s.probeFails
    /\ probesInFlight' = s.probesInFlight
    /\ launches' = s.launches
    /\ queue' = s.queue
    /\ activeCount' = s.activeCount
    /\ completed' = s.completed
    /\ successful' = s.successful
    /\ failed' = s.failed
    /\ clock' = s.clock

(***************************************************************************)
(* Sorting.                                                                *)
(***************************************************************************)
\* the comparator handed to Array.prototype.sort
Comparefn(im, a, b) ==
    IF im = "js" THEN a.ping - b.ping
    ELSE IF a.ping = NULL THEN 1
    ELSE IF b.ping = NULL THEN -1
    ELSE a.ping - b.ping

\* Array.prototype.sort of Node.js: insertion of each element behind the
\* last element it does not compare below (V8 inserts the pivot with
\* comparefn(pivot, element) < 0 meaning "before")
RECURSIVE InsertSorted(_, _, _)
InsertSorted(im, sorted, x) ==
    IF sorted = <<>> THEN <<x>>
    ELSE IF Comparefn(im, x, sorted[Len(sorted)]) < 0
         THEN Append(InsertSorted(im, SubSeq(sorted, 1, Len(sorted) - 1), x),
                     sorted[Len(sorted)])
         ELSE Append(sorted, x)

\* (the sorted front is drawn from a singleton so that it is computed once)
RECURSIVE ArraySort(_, _)
ArraySort(im, arr) ==
    IF arr = <<>> THEN <<>>
    ELSE CHOOSE r \in {InsertSorted(im, front, arr[Len(arr)]) :
                         front \in {ArraySort(im, SubSeq(arr, 1, Len(arr) - 1))}} : TRUE

\* AllResolved as Promise.race would do it
AnyResolved(p) == \E i \in DOMAIN p : p[i] = "done"

\* Promise.all(tasks): resolved once every task has resolved
AllResolved(p) == \A i \in DOMAIN p : p[i] = "done"

\* PromiseAllValues in the order in which the tasks resolved
PromiseAllValuesByCompletion(o) ==
    [k \in DOMAIN o |-> o[CHOOSE i \in DOMAIN o :
        Cardinality({j \in DOMAIN o : o[j].timestamp < o[i].timestamp
                                       \/ (o[j].timestamp = o[i].timestamp /\ j < i)}) = k - 1]]

\* ... with the results in the order of the tasks array
PromiseAllValues(o) == [i \in DOMAIN o |-> o[i]]

(***************************************************************************)
(* OutputGeneratorService.generateStatistics.                              *)
(***************************************************************************)
\* results.filter(r => r.status === status).length counting a neighbour bucket
CountStatusCopyPaste(rs, status) ==
    Len(SelectSeq(rs, LAMBDA r : r.status = (IF status = "medium" THEN "good" ELSE status)))

\* results.filter(r => r.status === status).length
CountStatus(rs, status) ==
    Len(SelectSeq(rs, LAMBDA r : r.status = status))

RECURSIVE SumPing(_)
SumPing(rs) ==
    IF rs = <<>> THEN 0
    ELSE (IF Head(rs).ping = NULL THEN 0 ELSE Head(rs).ping) + SumPing(Tail(rs))

\* AveragePing dividing without looking at the length
AveragePingUnguarded(reachableResults) ==
    IF Len(reachableResults) > 0
    THEN (2 * SumPing(reachableResults) + Len(reachableResults))
             \div (2 * Len(reachableResults))
    ELSE NULL

\* Math.round(totalPing / reachableResults.length), 0 for no reachable result
AveragePing(reachableResults) ==
    IF Len(reachableResults) > 0
    THEN (2 * SumPing(reachableResults) + Len(reachableResults))
             \div (2 * Len(reachableResults))
    ELSE 0

generateStatistics(rs) ==
    LET reachableResults == SelectSeq(rs, LAMBDA r : r.ping # NULL)
        unreachableResults == SelectSeq(rs, LAMBDA r : r.ping = NULL)
        sorted == ArraySort("ts", rs)
    IN  [totalServers       |-> Len(rs),
         reachableServers   |-> Len(reachableResults),
         unreachableServers |-> Len(unreachableResults),
         averagePing        |-> AveragePing(reachableResults),
         goodServers        |-> CountStatus(rs, "good"),
         mediumServers      |-> CountStatus(rs, "medium"),
         badServers         |-> CountStatus(rs, "bad"),
         bestServer         |-> IF sorted = <<>> THEN undefined ELSE sorted[1],
         worstServer        |-> IF Len(reachableResults) > 0
                                THEN reachableResults[Len(reachableResults)]
                                ELSE undefined]

(***************************************************************************)
(* Initial states and actions.                                             *)
(***************************************************************************)
ServerLists ==
    UNION {[1..n -> {TRUE, FALSE}] : n \in 0..MaxServers}

\* no getPingStatus call is under way
StatusIdle ==
    /\ timeArg = 0
    /\ pingStatus = "none"

(***************************************************************************)
(* The start of the program: the modules are loaded, then the command line *)
(* is parsed, then the run reads its settings.                             *)
(***************************************************************************)
PING_TIMEOUT == 1500
PING_RETRIES == 1
CONCURRENT_PINGS == 30

\* the config object as config.js exports it (no environment override)
DefaultConfigModule ==
    [PING_TIMEOUT |-> PING_TIMEOUT, PING_RETRIES |-> PING_RETRIES,
     CONCURRENT_PINGS |-> CONCURRENT_PINGS,
     COUNTRY_FILTER |-> "", CITY_FILTER |-> ""]

\* const { ... } = require('./config') in pingService.js
PingServiceDestructure(cfg) ==
    [PING_TIMEOUT |-> cfg.PING_TIMEOUT, PING_RETRIES |-> cfg.PING_RETRIES,
     CONCURRENT_PINGS |-> cfg.CONCURRENT_PINGS]

\* const { ... } = require('./config') in serverFetcher.js
FetcherDestructure(cfg) ==
    [COUNTRY_FILTER |-> cfg.COUNTRY_FILTER, CITY_FILTER |-> cfg.CITY_FILTER]

\* the command lines considered
CommandLines ==
    [timeout : {"", "3000"}, retries : {"", "0", "3"}, parallel : {"", "10"},
     country : {"", "SE"}, city : {"", "Stockholm"}]

\* parseInt(text, 10) on the numbers those command lines hold
ParseInt(text) ==
    CASE text = "0" -> 0
      [] text = "3" -> 3
      [] text = "10" -> 10
      [] text = "3000" -> 3000

CliIdle ==
    /\ argv = [timeout |-> "", retries |-> "", parallel |-> "", country |-> "",
               city |-> ""]
    /\ configModule = DefaultConfigModule
    /\ pingServiceConsts = PingServiceDestructure(DefaultConfigModule)
    /\ fetcherConsts = FetcherDestructure(DefaultConfigModule)
    /\ cliPc = "idle"
    /\ used = [timeout |-> 0, retries |-> 0, parallel |-> 0, country |-> "",
               city |-> ""]

\* the require / import lines at the head of the entry point
LoadModules ==
    /\ cliPc = "start"
    /\ pingServiceConsts' = PingServiceDestructure(configModule)
    /\ fetcherConsts' = FetcherDestructure(configModule)
    /\ cliPc' = "loaded"
    /\ UNCHANGED <<argv, configModule, used>>

\* parseCommandLineArgs, and the option handling of the commander action
ParseCommandLineArgs ==
    /\ cliPc = "loaded"
    /\ configModule' =
          [PING_TIMEOUT |-> IF argv.timeout # "" THEN ParseInt(argv.timeout)
                            ELSE configModule.PING_TIMEOUT,
           PING_RETRIES |-> IF argv.retries # "" THEN ParseInt(argv.retries)
                            ELSE configModule.PING_RETRIES,
           CONCURRENT_PINGS |-> IF argv.parallel # "" THEN ParseInt(argv.parallel)
                                ELSE configModule.CONCURRENT_PINGS,
           COUNTRY_FILTER |-> IF argv.country # "" THEN argv.country
                              ELSE configModule.COUNTRY_FILTER,
           CITY_FILTER |-> IF argv.city # "" THEN argv.city
                           ELSE configModule.CITY_FILTER]
    /\ cliPc' = "parsed"
    /\ UNCHANGED <<argv, pingServiceConsts, fetcherConsts, used>>

\* main / startApplication: the fetch stage and the probe tasks read their
\* settings, the CommonJS modules from the constants they destructured, the
\* TypeScript services from the config object
RunMain ==
    /\ cliPc = "parsed"
    /\ used' = IF impl = "js"
               THEN [timeout  |-> pingServiceConsts.PING_TIMEOUT,
                     retries  |-> pingServiceConsts.PING_RETRIES,
                     parallel |-> pingServiceConsts.CONCURRENT_PINGS,
                     country  |-> fetcherConsts.COUNTRY_FILTER,
                     city     |-> fetcherConsts.CITY_FILTER]
               ELSE [timeout  |-> configModule.PING_TIMEOUT,
                     retries  |-> configModule.PING_RETRIES,
                     parallel |-> configModule.CONCURRENT_PINGS,
                     country  |-> configModule.COUNTRY_FILTER,
                     city     |-> configModule.CITY_FILTER]
    /\ cliPc' = "ran"
    /\ UNCHANGED <<argv, configModule, pingServiceConsts, fetcherConsts>>

(***************************************************************************)
(* fetchServersFromAPI.                                                    *)
(***************************************************************************)
MaxFetchRetries == 3

\* the status fetchServersFromAPI accepts
StatusOK == 200

\* the server lists the API or the cache may hold
ApiLists == {<<>>, <<1>>, <<1, 2>>}

\* axios.get rejects, or resolves with a 2xx status and a body
Responses ==
    {[kind |-> "rejected", status |-> 0, data |-> <<>>],
     [kind |-> "resolved", status |-> 204, data |-> <<>>]}
    \cup {[kind |-> "resolved", status |-> StatusOK, data |-> d] : d \in ApiLists}

NoResponse == [kind |-> "none", status |-> 0, data |-> <<>>]

CacheFiles ==
    {[state |-> "missing", servers |-> <<>>], [state |-> "corrupt", servers |-> <<>>]}
    \cup {[state |-> "ok", servers |-> d] : d \in ApiLists}

FetchIdle ==
    /\ fetchPc = "off"
    /\ retriesArg = 0
    /\ fetchRetriesLeft = 0
    /\ requestsMade = 0
    /\ requestsFailed = 0
    /\ cacheReads = 0
    /\ lastResponse = NoResponse
    /\ cacheFile = [state |-> "missing", servers |-> <<>>]
    /\ fetched = <<>>
    /\ fetchSettled = "pending"

\* AfterGet giving up on the API while a retry is left
AfterGetCacheEarly(response, retriesLeft) ==
    IF response.kind = "resolved" /\ response.status = StatusOK THEN "return"
    ELSE IF retriesLeft > 1 THEN "retry"
    ELSE "cache"

\* AfterGet retrying once more than asked
AfterGetExtraRetry(response, retriesLeft) ==
    IF response.kind = "resolved" /\ response.status = StatusOK THEN "return"
    ELSE IF retriesLeft >= 0 THEN "retry"
    ELSE "cache"

\* what fetchServersFromAPI does with the answer to its request: return the
\* body, call itself again after a second, or fall back to the cache
AfterGet(response, retriesLeft) ==
    IF response.kind = "resolved" /\ response.status = StatusOK THEN "return"
    ELSE IF retriesLeft > 0 THEN "retry"
    ELSE "cache"

\* fetchServersFromAPI(retries) up to `await axios.get(...)`
CallFetchServersFromAPI ==
    /\ fetchPc = "idle"
    /\ fetchRetriesLeft' = retriesArg
    /\ requestsMade' = requestsMade + 1
    /\ fetchPc' = "requesting"
    /\ UNCHANGED <<retriesArg, requestsFailed, cacheReads, lastResponse, cacheFile,
                   fetched, fetchSettled>>

\* the request is answered
GetAnswers(response) ==
    /\ fetchPc = "requesting"
    /\ lastResponse' = response
    /\ LET step == AfterGet(response, fetchRetriesLeft)
       IN  CASE step = "return" ->
                   /\ fetched' = response.data
                   /\ fetchSettled' = "fulfilled"
                   /\ fetchPc' = "returned"
                   /\ UNCHANGED <<requestsFailed, cacheReads>>
             [] step = "retry" ->
                   /\ requestsFailed' = requestsFailed + 1
                   /\ fetchPc' = "waiting"
                   /\ UNCHANGED <<fetched, fetchSettled, cacheReads>>
             [] OTHER ->
                   /\ requestsFailed' = requestsFailed + 1
                   /\ cacheReads' = cacheReads + 1
                   /\ fetchPc' = "readingCache"
                   /\ UNCHANGED <<fetched, fetchSettled>>
    /\ UNCHANGED <<retriesArg, fetchRetriesLeft, requestsMade, cacheFile>>

\* the one-second timer fires: fetchServersFromAPI(retries - 1)
RetryTimerFires ==
    /\ fetchPc = "waiting"
    /\ fetchRetriesLeft' = fetchRetriesLeft - 1
    /\ requestsMade' = requestsMade + 1
    /\ fetchPc' = "requesting"
    /\ UNCHANGED <<retriesArg, requestsFailed, cacheReads, lastResponse, cacheFile,
                   fetched, fetchSettled>>

\* AfterCacheRead without the inner try / catch
AfterCacheReadRethrow(file) ==
    IF file.state = "ok" THEN [settled |-> "fulfilled", value |-> file.servers]
    ELSE [settled |-> "rejected", value |-> <<>>]

\* how fetchServersFromAPI settles once loadServersFromCache has answered:
\* with the parsed file, or with [] when reading or parsing threw
AfterCacheRead(file) ==
    IF file.state = "ok" THEN [settled |-> "fulfilled", value |-> file.servers]
    ELSE [settled |-> "fulfilled", value |-> <<>>]

\* loadServersFromCache answers with the parsed file or throws
CacheAnswers ==
    /\ fetchPc = "readingCache"
    /\ fetched' = AfterCacheRead(cacheFile).value
    /\ fetchSettled' = AfterCacheRead(cacheFile).settled
    /\ fetchPc' = "returned"
    /\ UNCHANGED <<retriesArg, fetchRetriesLeft, requestsMade, requestsFailed,
                   cacheReads, lastResponse, cacheFile>>

(***************************************************************************)
(* compareWithPrevious.                                                    *)
(***************************************************************************)
MaxCompared == 2

\* the difference under which two pings count as the same
UNCHANGED_BELOW == 5

\* the outcomes a result file or a run may hold for one hostname: pingServer's
\* result for an answer of 20, 24, 25 or 9999 ms, and createUnreachableResult's
ComparedOutcomes(hostname) ==
    {[hostname |-> hostname, ping |-> 20, status |-> getPingStatus(20)],
     [hostname |-> hostname, ping |-> 24, status |-> getPingStatus(24)],
     [hostname |-> hostname, ping |-> 25, status |-> getPingStatus(25)],
     [hostname |-> hostname, ping |-> UNREACHABLE_PING,
      status |-> getPingStatus(UNREACHABLE_PING)],
     [hostname |-> hostname, ping |-> UNREACHABLE_PING, status |-> "unreachable"]}

\* the result lists compared: up to MaxCompared outcomes of different hostnames
ComparedLists ==
    LET all == UNION {ComparedOutcomes(h) : h \in 1..MaxCompared}
    IN  {l \in UNION {[1..n -> all] : n \in 0..MaxCompared} :
            \A i, j \in DOMAIN l : i < j => l[i].hostname < l[j].hostname}

\* the second argument: null when there is no earlier file, else its content
PreviousInputs ==
    {[isArray |-> FALSE, items |-> <<>>]}
    \cup {[isArray |-> TRUE, items |-> l] : l \in ComparedLists}

NoComparison ==
    [hasPrevious |-> FALSE, totalServers |-> 0, improved |-> <<>>, degraded |-> <<>>,
     unchanged |-> <<>>, new |-> <<>>, removed |-> <<>>,
     mostImproved |-> 0, mostDegraded |-> 0]

CompareIdle ==
    /\ currentResults = <<>>
    /\ previousResults = [isArray |-> FALSE, items |-> <<>>]
    /\ comparison = NoComparison
    /\ comparePc = "off"

\* new Map(list.map(server => [server.hostname, server])).get(hostname): the
\* index of the last entry of that hostname, 0 when there is none
MapGet(list, hostname) ==
    LET found == {k \in DOMAIN list : list[k].hostname = hostname}
    IN  IF found = {} THEN 0 ELSE CHOOSE k \in found : \A m \in found : m <= k

\* Classify counting a difference of exactly 5 ms as no change
ClassifyInclusive(current, previous) ==
    LET k == MapGet(previous, current.hostname)
        pingDiff == current.ping - previous[k].ping
    IN  IF k = 0 THEN "new"
        ELSE IF current.ping = UNREACHABLE_PING \/ previous[k].ping = UNREACHABLE_PING
             THEN "skipped"
        ELSE IF (IF pingDiff < 0 THEN -pingDiff ELSE pingDiff) <= UNCHANGED_BELOW
             THEN "unchanged"
        ELSE IF pingDiff < 0 THEN "improved"
        ELSE "degraded"

\* the body of currentResults.forEach: the list the current server is pushed to
Classify(current, previous) ==
    LET k == MapGet(previous, current.hostname)
        pingDiff == current.ping - previous[k].ping
    IN  IF k = 0 THEN "new"
        ELSE IF current.ping = UNREACHABLE_PING \/ previous[k].ping = UNREACHABLE_PING
             THEN "skipped"
        ELSE IF (IF pingDiff < 0 THEN -pingDiff ELSE pingDiff) < UNCHANGED_BELOW
             THEN "unchanged"
        ELSE IF pingDiff < 0 THEN "improved"
        ELSE "degraded"

\* { ...current, previousPing, pingDiff }
WithComparison(current, previous) ==
    LET k == MapGet(previous, current.hostname)
    IN  [hostname |-> current.hostname, ping |-> current.ping,
         previousPing |-> previous[k].ping,
         pingDiff |-> current.ping - previous[k].ping]

\* the servers pushed to one list, in the order of currentResults
RECURSIVE Pushed(_, _, _)
Pushed(current, previous, class) ==
    IF current = <<>> THEN <<>>
    ELSE LET front == Pushed(SubSeq(current, 1, Len(current) - 1), previous, class)
             last == current[Len(current)]
         IN  IF Classify(last, previous) # class THEN front
             ELSE IF class = "new" THEN Append(front, last)
             ELSE Append(front, WithComparison(last, previous))

\* arr.sort((a, b) => sign * (a.pingDiff - b.pingDiff))
RECURSIVE SortByPingDiff(_, _)
SortByPingDiff(arr, sign) ==
    IF arr = <<>> THEN <<>>
    ELSE LET sorted == SortByPingDiff(SubSeq(arr, 1, Len(arr) - 1), sign)
             x == arr[Len(arr)]
             before == {k \in DOMAIN sorted :
                          \A m \in k..Len(sorted) :
                              sign * (x.pingDiff - sorted[m].pingDiff) < 0}
             at == IF before = {} THEN Len(sorted) + 1
                   ELSE CHOOSE k \in before : \A m \in before : k <= m
         IN  SubSeq(sorted, 1, at - 1) \o <<x>> \o SubSeq(sorted, at, Len(sorted))

\* the previous servers whose hostname the current results do not hold
RemovedServers(current, previous) ==
    LET Gone(server) == MapGet(current, server.hostname) = 0
    IN  SelectSeq(previous, Gone)

compareWithPrevious(current, previousArg) ==
    IF ~previousArg.isArray \/ Len(previousArg.items) = 0 THEN NoComparison
    ELSE LET previous == previousArg.items
             improved == SortByPingDiff(Pushed(current, previous, "improved"), 1)
             degraded == SortByPingDiff(Pushed(current, previous, "degraded"), -1)
         IN  [hasPrevious |-> TRUE,
              totalServers |-> Len(current),
              improved |-> improved,
              degraded |-> degraded,
              unchanged |-> Pushed(current, previous, "unchanged"),
              new |-> Pushed(current, previous, "new"),
              removed |-> RemovedServers(current, previous),
              mostImproved |-> IF improved = <<>> THEN 0 ELSE improved[1].hostname,
              mostDegraded |-> IF degraded = <<>> THEN 0 ELSE degraded[1].hostname]

CallCompareWithPrevious ==
    /\ comparePc = "called"
    /\ comparison' = compareWithPrevious(currentResults, previousResults)
    /\ comparePc' = "done"
    /\ UNCHANGED <<currentResults, previousResults>>

(***************************************************************************)
(* filterServers.  A string is the sequence of its characters.             *)
(***************************************************************************)
MaxFiltered == 2

\* String.prototype.toUpperCase on one character
UpperChar(c) ==
    CASE c = "s" -> "S" [] c = "e" -> "E" [] c = "d" -> "D" [] c = "t" -> "T"
      [] c = "o" -> "O" [] c = "l" -> "L" [] OTHER -> c

\* String.prototype.toLowerCase on one character
LowerChar(c) ==
    CASE c = "S" -> "s" [] c = "E" -> "e" [] c = "D" -> "d" [] c = "T" -> "t"
      [] c = "O" -> "o" [] c = "L" -> "l" [] OTHER -> c

toUpperCase(str) == [i \in DOMAIN str |-> UpperChar(str[i])]
toLowerCase(str) == [i \in DOMAIN str |-> LowerChar(str[i])]

\* String.prototype.trim
RECURSIVE trim(_)
trim(str) ==
    IF str = <<>> THEN <<>>
    ELSE IF str[1] = " " THEN trim(Tail(str))
    ELSE IF str[Len(str)] = " " THEN trim(SubSeq(str, 1, Len(str) - 1))
    ELSE str

\* str.split(',')
RECURSIVE split(_)
split(str) ==
    LET commas == {i \in DOMAIN str : str[i] = ","}
        first == CHOOSE i \in commas : \A j \in commas : i <= j
    IN  IF commas = {} THEN <<str>>
        ELSE <<SubSeq(str, 1, first - 1)>> \o split(SubSeq(str, first + 1, Len(str)))

\* String.prototype.includes
includes(str, part) ==
    \E i \in 0..(Len(str) - Len(part)) : SubSeq(str, i + 1, i + Len(part)) = part

\* the members of an array
Members(arr) == {arr[i] : i \in DOMAIN arr}

\* CountryMatches comparing the country code as it is written
CountryMatchesAsWritten(server, filter) ==
    LET countries == {toUpperCase(trim(c)) : c \in Members(split(filter))}
    IN  server.country_code \in countries

\* the callback of the country filter
CountryMatches(server, filter) ==
    LET countries == {toUpperCase(trim(c)) : c \in Members(split(filter))}
    IN  toUpperCase(server.country_code) \in countries

\* the callback of the city filter
CityMatches(server, filter) ==
    LET cities == {toLowerCase(trim(c)) : c \in Members(split(filter))}
    IN  \E city \in cities : includes(toLowerCase(server.city_name), city)

filterServers(list, country, city) ==
    LET ByCountry(server) == CountryMatches(server, country)
        ByCity(server) == CityMatches(server, city)
        afterCountry == IF country # <<>> THEN SelectSeq(list, ByCountry) ELSE list
    IN  IF city # <<>> THEN SelectSeq(afterCountry, ByCity) ELSE afterCountry

\* the servers of the lists filtered
FilteredServers ==
    {[hostname |-> 1, country_code |-> <<"s", "e">>, city_name |-> <<"S", "t", "o">>],
     [hostname |-> 2, country_code |-> <<"s", "e">>, city_name |-> <<"O", "s", "l", "o">>],
     [hostname |-> 3, country_code |-> <<"d", "e">>, city_name |-> <<"S", "t", "o">>],
     [hostname |-> 4, country_code |-> <<"D", "E">>, city_name |-> <<"O", "s", "l", "o">>]}

FilterInputs == UNION {[1..n -> FilteredServers] : n \in 0..MaxFiltered}

\* '', 'SE', 'se', 'de, SE', 'se,', ' '
CountryFilters ==
    {<<>>, <<"S", "E">>, <<"s", "e">>, <<"d", "e", ",", " ", "S", "E">>,
     <<"s", "e", ",">>, <<" ">>}

\* '', 'sto', 'ST', 'slo , e', 'o', 'sto,'
CityFilters ==
    {<<>>, <<"s", "t", "o">>, <<"S", "T">>, <<"s", "l", "o", " ", ",", " ", "e">>,
     <<"o">>, <<"s", "t", "o", ",">>}

FilterIdle ==
    /\ filterInput = <<>>
    /\ countryFilter = <<>>
    /\ cityFilter = <<>>
    /\ filtered = <<>>
    /\ filterPc = "off"

CallFilterServers ==
    /\ filterPc = "called"
    /\ filtered' = filterServers(filterInput, countryFilter, cityFilter)
    /\ filterPc' = "done"
    /\ UNCHANGED <<filterInput, countryFilter, cityFilter>>

(***************************************************************************)
(* main, execution after execution: the results of an execution are the    *)
(* number of the execution.                                                *)
(***************************************************************************)
MaxRuns == 3
MaxTicks == 3

\* the second at which the first execution may start
FirstSecond == 8

\* a zero-padded field of toISOString, as its two decimal digits
Pad2(t) == <<t \div 10, t % 10>>

\* a.localeCompare(b) < 0 on two such fields
ComesBefore(a, b) == a[1] < b[1] \/ (a[1] = b[1] /\ a[2] < b[2])

\* saveResults: ping_results_<timestamp>.json and ping_results_latest.json
\* are written, or nothing when the directory cannot be written to
saveResults(files, now, content, written) ==
    IF ~written THEN files
    ELSE {f \in files : ~f.latest /\ f.stamp # Pad2(now)}
         \cup {[latest |-> FALSE, stamp |-> Pad2(now), content |-> content],
               [latest |-> TRUE, stamp |-> <<>>, content |-> content]}

\* loadPreviousResults taking the first file in ascending order
loadPreviousResultsOldest(files) ==
    LET resultFiles == {f \in files : ~f.latest}
    IN  IF resultFiles = {} THEN 0
        ELSE (CHOOSE f \in resultFiles :
                 \A g \in resultFiles : ~ComesBefore(g.stamp, f.stamp)).content

\* loadPreviousResults: the timestamped file that sorts first in descending
\* order of its timestamp, null when there is none
loadPreviousResults(files) ==
    LET resultFiles == {f \in files : ~f.latest}
    IN  IF resultFiles = {} THEN 0
        ELSE (CHOOSE f \in resultFiles :
                 \A g \in resultFiles : ~ComesBefore(f.stamp, g.stamp)).content

MainIdle ==
    /\ runNo = 0
    /\ mainPc = "off"
    /\ wallClock = FirstSecond
    /\ disk = {}
    /\ baseline = 0
    /\ lastSavedRun = 0

\* node src/index.js: steps 1 and 2 of main
MainFetchAndPing(anyServer) ==
    /\ mainPc \in {"idle", "saved", "noServers"}
    /\ runNo < MaxRuns
    /\ runNo' = runNo + 1
    /\ baseline' = 0
    /\ mainPc' = IF anyServer THEN "pinged" ELSE "noServers"
    /\ UNCHANGED <<wallClock, disk, lastSavedRun>>

\* step 3 of main
MainLoadPrevious ==
    /\ mainPc = "pinged"
    /\ baseline' = loadPreviousResults(disk)
    /\ mainPc' = "compared"
    /\ UNCHANGED <<runNo, wallClock, disk, lastSavedRun>>

\* step 4 of main
MainSaveResults(written) ==
    /\ mainPc = "compared"
    /\ disk' = saveResults(disk, wallClock, runNo, written)
    /\ lastSavedRun' = IF written THEN runNo ELSE lastSavedRun
    /\ mainPc' = "saved"
    /\ UNCHANGED <<runNo, wallClock, baseline>>

\* a second passes
Tick ==
    /\ mainPc # "off"
    /\ wallClock < FirstSecond + MaxTicks
    /\ wallClock' = wallClock + 1
    /\ UNCHANGED <<runNo, mainPc, disk, baseline, lastSavedRun>>

(***************************************************************************)
(* fetchServers, call after call on one cache file.                        *)
(***************************************************************************)
MaxFetchRuns == 2

\* the retries of a fetchServersFromAPI call without an argument
DEFAULT_RETRIES == 3

FetchServersIdle ==
    /\ fetchRuns = 0
    /\ cacheWrites = 0

\* the server object the API gives for a hostname
ApiServer(hostname) == CHOOSE s \in FilteredServers : s.hostname = hostname

\* fetchServers saving whatever it fetched
ShouldCacheAlways(list) == TRUE

\* `if (servers.length > 0)` in front of saveServersToCache
ShouldCache(list) == Len(list) > 0

\* saveServersToCache: the file holds the list it was given, or, when mkdir
\* or writeFile threw, what it held before
saveServersToCache(file, list, written) ==
    IF written THEN [state |-> "ok", servers |-> list] ELSE file

\* fetchServers after `await fetchServersFromAPI()`: the cache is saved, the
\* filters are applied and the filtered list returned; a rejection is caught
\* and answered with []
FetchServersContinues(written) ==
    /\ fetchPc = "returned"
    /\ filterPc = "called"
    /\ fetchPc' = "done"
    /\ filterPc' = "done"
    /\ IF fetchSettled = "fulfilled"
       THEN /\ cacheFile' = IF ShouldCache(fetched)
                            THEN saveServersToCache(cacheFile, fetched, written)
                            ELSE cacheFile
            /\ cacheWrites' = IF ShouldCache(fetched) /\ written
                              THEN cacheWrites + 1 ELSE cacheWrites
            /\ filterInput' = [i \in 1..Len(fetched) |-> ApiServer(fetched[i])]
            /\ filtered' = filterServers(filterInput', countryFilter, cityFilter)
       ELSE /\ filtered' = <<>>
            /\ UNCHANGED <<cacheFile, cacheWrites, filterInput>>
    /\ UNCHANGED <<retriesArg, fetchRetriesLeft, requestsMade, requestsFailed,
                   cacheReads, lastResponse, fetched, fetchSettled, countryFilter,
                   cityFilter, fetchRuns>>

\* the program is started again, with the filters of its environment
CallFetchServers(country, city) ==
    /\ fetchPc = "done"
    /\ fetchRuns < MaxFetchRuns
    /\ fetchRuns' = fetchRuns + 1
    /\ fetchPc' = "idle"
    /\ fetchRetriesLeft' = 0
    /\ requestsMade' = 0
    /\ requestsFailed' = 0
    /\ cacheReads' = 0
    /\ lastResponse' = NoResponse
    /\ fetched' = <<>>
    /\ fetchSettled' = "pending"
    /\ countryFilter' = country
    /\ cityFilter' = city
    /\ filterInput' = <<>>
    /\ filtered' = <<>>
    /\ filterPc' = "called"
    /\ UNCHANGED <<retriesArg, cacheFile, cacheWrites>>

(***************************************************************************)
(* HistoryAnalyzerService.saveToHistory, call after call on one history    *)
(* directory.  A history file is its timestamp, two zero-padded digits.    *)
(***************************************************************************)
MaxSaves == 3
MaxHistoryTicks == 2
MaxKept == 2
EarlierSaves == 2

\* what cleanupOldHistoryFiles keeps when the setting is falsy
DEFAULT_MAX_HISTORY_FILES == 100

NoOutcome == [written |-> FALSE, cleaned |-> FALSE]

HistoryIdle ==
    /\ historyDir = {}
    /\ historyLimit = 0
    /\ historyClock = FirstSecond
    /\ saveCount = 0
    /\ lastSaved = <<>>
    /\ lastDeleted = {}
    /\ lastOutcome = NoOutcome

\* `config.MAX_HISTORY_FILES || 100`
MaxHistoryFiles(setting) ==
    IF setting = 0 THEN DEFAULT_MAX_HISTORY_FILES ELSE setting

\* the order Array.prototype.sort() puts two file names in
SortsBefore(a, b) == a[1] < b[1] \/ (a[1] = b[1] /\ a[2] < b[2])

\* historyFiles.slice(0, n) of the sorted names
SliceOldest(files, n) ==
    {f \in files : Cardinality({g \in files : SortsBefore(g, f)}) < n}

\* filesToDelete taken from the end of the sorted names
filesToDeleteNewest(files, setting) ==
    LET n == Cardinality(files) - MaxHistoryFiles(setting)
    IN  IF n > 0
        THEN {f \in files : Cardinality({g \in files : SortsBefore(f, g)}) < n}
        ELSE {}

\* filesToDelete: the names over the maximum, from the start of the sorted names
filesToDelete(files, setting) ==
    LET n == Cardinality(files) - MaxHistoryFiles(setting)
    IN  IF n > 0 THEN SliceOldest(files, n) ELSE {}

\* cleanupOldHistoryFiles: the files unlinked, in sorted order, until an
\* unlink throws; `unlinks` is the number of unlinks that succeed
cleanupOldHistoryFiles(files, setting, unlinks) ==
    LET doomed == filesToDelete(files, setting)
    IN  IF unlinks >= Cardinality(doomed) THEN doomed
        ELSE {f \in doomed : Cardinality({g \in doomed : SortsBefore(g, f)}) < unlinks}

\* saveToHistory: the file of the current second is written and the cleanup
\* runs; when mkdir or writeFile throws, the cleanup is skipped
saveToHistory(written, unlinks) ==
    /\ saveCount < MaxSaves
    /\ saveCount' = saveCount + 1
    /\ lastSaved' = Pad2(historyClock)
    /\ IF written
       THEN \E deleted \in {cleanupOldHistoryFiles(historyDir \cup {Pad2(historyClock)},
                                                   historyLimit, unlinks)} :
               /\ lastDeleted' = deleted
               /\ historyDir' = (historyDir \cup {Pad2(historyClock)}) \ deleted
               /\ lastOutcome' =
                     [written |-> TRUE,
                      cleaned |-> deleted = filesToDelete(historyDir \cup {Pad2(historyClock)},
                                                          historyLimit)]
       ELSE /\ lastDeleted' = {}
            /\ lastOutcome' = NoOutcome
            /\ UNCHANGED historyDir
    /\ UNCHANGED <<historyLimit, historyClock>>

\* a second passes
HistoryTick ==
    /\ historyClock < FirstSecond + MaxHistoryTicks
    /\ historyClock' = historyClock + 1
    /\ UNCHANGED <<historyDir, historyLimit, saveCount, lastSaved, lastDeleted, lastOutcome>>

LateIdle == CompareIdle /\ FilterIdle /\ MainIdle /\ FetchServersIdle /\ HistoryIdle

\* the configurations with a usable number of parallel pings
Configs ==
    [PING_RETRIES : 0..MaxRetries,
     CONCURRENT_PINGS : 1..MaxConcurrentPings,
     MAX_THREADS : 0..MaxThreadsBound]

\* the program before pingAllServers is called, configured by one of cfgs
InitRun(cfgs) ==
    /\ impl \in Impls
    /\ config \in cfgs
    /\ \E ips \in ServerLists :
          servers = [i \in DOMAIN ips |-> [hostname |-> i, hasIP |-> ips[i]]]
    /\ runState = "init"
    /\ concurrency = 0
    /\ total = 0
    /\ pc = [i \in Indices |-> "queued"]
    /\ retryCount = [i \in Indices |-> 0]
    /\ outcome = [i \in Indices |-> NoResult]
    /\ probeCalls = [i \in Indices |-> 0]
    /\ probeFails = [i \in Indices |-> 0]
    /\ probesInFlight = [i \in Indices |-> 0]
    /\ launches = [i \in Indices |-> 0]
    /\ queue = <<>>
    /\ activeCount = 0
    /\ completed = 0
    /\ successful = 0
    /\ failed = 0
    /\ clock = 0
    /\ results = <<>>
    /\ sortedResults = <<>>
    /\ statistics = NoStatistics
    /\ cancelledAt = -1

Init ==
    /\ InitRun(Configs)
    /\ StatusIdle
    /\ CliIdle
    /\ LateIdle
    /\ FetchIdle

\* pLimit(concurrency) accepting anything
ValidLimitAny(limit) == TRUE

\* pLimit(concurrency) throws a TypeError unless concurrency is an integer
\* from 1 up
ValidLimit(limit) == limit >= 1

\* pingAllServers(servers) up to `await Promise.all(tasks)`
StartRun ==
    /\ runState = "init"
    /\ \E limit \in {EffectiveConcurrency(config, CpuCount)} :
       \E s \in {Drain([Sched EXCEPT !.queue = [i \in Indices |-> i]], limit)} :
           /\ concurrency' = limit
           /\ IF ValidLimit(limit)
              THEN /\ Install(s)
                   /\ total' = Len(servers)
                   /\ runState' = "running"
              ELSE /\ runState' = "invalid"
                   /\ UNCHANGED <<total, pc, retryCount, outcome, probeCalls,
                                  probeFails, probesInFlight, launches, queue, activeCount, completed,
                                  successful, failed, clock>>
    /\ UNCHANGED <<impl, config, servers, results, sortedResults, statistics,
                   cancelledAt, notRunVars>>

\* a probe answers: pingServer continues, and when it resolves the
\* progress is updated and p-limit starts the next queued tasks
ProbeDone(i, reply) ==
    /\ pc[i] = "attempting"
    /\ runState # "killed"
    /\ \E s \in {Drain(Continue(Sched, i, reply), concurrency)} :
           /\ Install(s)
           /\ runState' = IF s.aborted THEN "rejected" ELSE runState
    /\ UNCHANGED <<impl, config, servers, concurrency, total, results, sortedResults,
                   statistics, cancelledAt, notRunVars>>

\* Promise.all resolves: pingAllServers returns and the caller sorts
Finish ==
    /\ runState = "running"
    /\ AllResolved(pc)
    /\ \E values \in {PromiseAllValues(outcome)} :
          /\ results' = values
          /\ sortedResults' = ArraySort(impl, values)
          /\ statistics' = IF impl = "ts" THEN generateStatistics(values)
                            ELSE NoStatistics
    /\ runState' = "returned"
    /\ UNCHANGED <<impl, config, servers, concurrency, total, pc, retryCount,
                   outcome, probeCalls, probeFails, probesInFlight, launches, queue, activeCount,
                   completed, successful, failed, clock, cancelledAt, notRunVars>>

Next ==
    \/ StartRun
    \/ \E i \in Indices : \E reply \in ProbeReplies : ProbeDone(i, reply)
    \/ Finish

Spec == Init /\ [][Next]_vars

(***************************************************************************)
(* Runs under any configured number of parallel pings, as `--parallel 0`   *)
(* or CONCURRENT_PINGS=0 give it.                                          *)
(***************************************************************************)
ConfigsAnyLimit ==
    [PING_RETRIES : 0..MaxRetries,
     CONCURRENT_PINGS : -1..MaxConcurrentPings,
     MAX_THREADS : 0..MaxThreadsBound]

InitAnyLimit ==
    /\ InitRun(ConfigsAnyLimit)
    /\ StatusIdle
    /\ CliIdle
    /\ LateIdle
    /\ FetchIdle

SpecAnyLimit == InitAnyLimit /\ [][Next]_vars

(***************************************************************************)
(* Runs the caller may interrupt.  Neither pingAllServers nor its callers  *)
(* take a cancellation token or handle SIGINT, so an interruption ends the *)
(* process.                                                                *)
(***************************************************************************)
Interrupt ==
    /\ runState = "running"
    /\ completed < total
    /\ cancelledAt' = completed
    /\ runState' = "killed"
    /\ UNCHANGED <<impl, config, servers, concurrency, total, pc, retryCount,
                   outcome, probeCalls, probeFails, probesInFlight, launches, queue, activeCount,
                   completed, successful, failed, clock, results,
                   sortedResults, statistics, notRunVars>>

NextInterruptible ==
    \/ Next
    \/ Interrupt

SpecInterruptible == Init /\ [][NextInterruptible]_vars

(***************************************************************************)
(* getPingStatus on its own.                                               *)
(***************************************************************************)
MaxPingTime == 120

\* a run that never starts, next to the function under study
RunIdleAs(im) ==
    /\ impl = im
    /\ config = [PING_RETRIES |-> 0, CONCURRENT_PINGS |-> 1, MAX_THREADS |-> 0]
    /\ servers = <<>>
    /\ runState = "idle"
    /\ concurrency = 0
    /\ total = 0
    /\ pc = <<>>
    /\ retryCount = <<>>
    /\ outcome = <<>>
    /\ probeCalls = <<>>
    /\ probeFails = <<>>
    /\ probesInFlight = <<>>
    /\ launches = <<>>
    /\ queue = <<>>
    /\ activeCount = 0
    /\ completed = 0
    /\ successful = 0
    /\ failed = 0
    /\ clock = 0
    /\ results = <<>>
    /\ sortedResults = <<>>
    /\ statistics = NoStatistics
    /\ cancelledAt = -1

RunIdle == RunIdleAs("js")

InitStatus ==
    /\ RunIdle
    /\ CliIdle
    /\ LateIdle
    /\ FetchIdle
    /\ timeArg \in 0..MaxPingTime
    /\ pingStatus = "none"

CallGetPingStatus ==
    /\ pingStatus = "none"
    /\ pingStatus' = getPingStatus(timeArg)
    /\ UNCHANGED <<runVars, timeArg, cliVars, fetchVars, lateVars>>

NextStatus == CallGetPingStatus

SpecStatus == InitStatus /\ [][NextStatus]_vars

(***************************************************************************)
(* The start of the program on its own.                                    *)
(***************************************************************************)
InitCli ==
    /\ \E im \in Impls : RunIdleAs(im)
    /\ StatusIdle
    /\ FetchIdle
    /\ LateIdle
    /\ argv \in CommandLines
    /\ configModule = DefaultConfigModule
    /\ pingServiceConsts = PingServiceDestructure(DefaultConfigModule)
    /\ fetcherConsts = FetcherDestructure(DefaultConfigModule)
    /\ cliPc = "start"
    /\ used = [timeout |-> 0, retries |-> 0, parallel |-> 0, country |-> "",
               city |-> ""]

NextCli ==
    \/ LoadModules /\ UNCHANGED <<runVars, statusVars, fetchVars, lateVars>>
    \/ ParseCommandLineArgs /\ UNCHANGED <<runVars, statusVars, fetchVars, lateVars>>
    \/ RunMain /\ UNCHANGED <<runVars, statusVars, fetchVars, lateVars>>

SpecCli == InitCli /\ [][NextCli]_vars

(***************************************************************************)
(* A fetchServersFromAPI call on its own.                                  *)
(***************************************************************************)
InitFetch ==
    /\ RunIdle
    /\ StatusIdle
    /\ CliIdle
    /\ LateIdle
    /\ fetchPc = "idle"
    /\ retriesArg \in 0..MaxFetchRetries
    /\ fetchRetriesLeft = 0
    /\ requestsMade = 0
    /\ requestsFailed = 0
    /\ cacheReads = 0
    /\ lastResponse = NoResponse
    /\ cacheFile \in CacheFiles
    /\ fetched = <<>>
    /\ fetchSettled = "pending"

NextFetch ==
    \/ CallFetchServersFromAPI /\ UNCHANGED <<runVars, statusVars, cliVars, lateVars>>
    \/ \E response \in Responses :
          GetAnswers(response) /\ UNCHANGED <<runVars, statusVars, cliVars, lateVars>>
    \/ RetryTimerFires /\ UNCHANGED <<runVars, statusVars, cliVars, lateVars>>
    \/ CacheAnswers /\ UNCHANGED <<runVars, statusVars, cliVars, lateVars>>

SpecFetch == InitFetch /\ [][NextFetch]_vars

(***************************************************************************)
(* A compareWithPrevious call on its own.                                  *)
(***************************************************************************)
InitCompare ==
    /\ RunIdle
    /\ StatusIdle
    /\ CliIdle
    /\ FetchIdle
    /\ HistoryIdle
    /\ FetchServersIdle
    /\ MainIdle
    /\ FilterIdle
    /\ currentResults \in ComparedLists
    /\ previousResults \in PreviousInputs
    /\ comparison = NoComparison
    /\ comparePc = "called"

NextCompare ==
    CallCompareWithPrevious
        /\ UNCHANGED <<runVars, statusVars, cliVars, fetchVars, historyVars, cachingVars, mainVars, filterVars>>

SpecCompare == InitCompare /\ [][NextCompare]_vars

(***************************************************************************)
(* A filterServers call on its own.                                        *)
(***************************************************************************)
InitFilter ==
    /\ RunIdle
    /\ StatusIdle
    /\ CliIdle
    /\ FetchIdle
    /\ HistoryIdle
    /\ FetchServersIdle
    /\ MainIdle
    /\ CompareIdle
    /\ filterInput \in FilterInputs
    /\ countryFilter \in CountryFilters
    /\ cityFilter \in CityFilters
    /\ filtered = <<>>
    /\ filterPc = "called"

NextFilter ==
    CallFilterServers
        /\ UNCHANGED <<runVars, statusVars, cliVars, fetchVars, historyVars, cachingVars, mainVars, compareVars>>

SpecFilter == InitFilter /\ [][NextFilter]_vars

(***************************************************************************)
(* The run when every prober call is answered: an answer that is due       *)
(* comes, and the program takes the steps it can take.                     *)
(***************************************************************************)
\* the answers of the prober told apart by what pingServer does with them
FairReplies ==
    {[kind |-> "throws", time |-> 0, packetLoss |-> 0],
     [kind |-> "dead", time |-> 0, packetLoss |-> 100],
     [kind |-> "alive", time |-> 20, packetLoss |-> 0]}

NextFair ==
    \/ StartRun
    \/ \E i \in Indices : \E reply \in FairReplies : ProbeDone(i, reply)
    \/ Finish

SpecFair ==
    /\ Init
    /\ [][NextFair]_vars
    /\ WF_vars(StartRun)
    /\ \A i \in 1..MaxServers :
          WF_vars(i \in Indices /\ \E reply \in FairReplies : ProbeDone(i, reply))
    /\ WF_vars(Finish)

(***************************************************************************)
(* Successive executions of main on their own.                             *)
(***************************************************************************)
InitMain ==
    /\ RunIdle
    /\ StatusIdle
    /\ CliIdle
    /\ FetchIdle
    /\ HistoryIdle
    /\ FetchServersIdle
    /\ CompareIdle
    /\ FilterIdle
    /\ runNo = 0
    /\ mainPc = "idle"
    /\ wallClock = FirstSecond
    /\ disk = {}
    /\ baseline = 0
    /\ lastSavedRun = 0

NextMain ==
    \/ \E anyServer \in BOOLEAN :
          MainFetchAndPing(anyServer)
              /\ UNCHANGED <<runVars, statusVars, cliVars, fetchVars, historyVars, cachingVars, compareVars,
                             filterVars>>
    \/ MainLoadPrevious
          /\ UNCHANGED <<runVars, statusVars, cliVars, fetchVars, historyVars, cachingVars, compareVars,
                         filterVars>>
    \/ \E written \in BOOLEAN :
          MainSaveResults(written)
              /\ UNCHANGED <<runVars, statusVars, cliVars, fetchVars, historyVars, cachingVars, compareVars,
                             filterVars>>
    \/ Tick
          /\ UNCHANGED <<runVars, statusVars, cliVars, fetchVars, historyVars, cachingVars, compareVars,
                         filterVars>>

SpecMain == InitMain /\ [][NextMain]_vars

(***************************************************************************)
(* fetchServers called again and again: each call fetches with the default *)
(* number of retries, saves the cache and filters.                         *)
(***************************************************************************)
InitFetchServers ==
    /\ RunIdle
    /\ StatusIdle
    /\ CliIdle
    /\ CompareIdle
    /\ MainIdle
    /\ HistoryIdle
    /\ fetchRuns = 1
    /\ cacheWrites = 0
    /\ fetchPc = "idle"
    /\ retriesArg = DEFAULT_RETRIES
    /\ fetchRetriesLeft = 0
    /\ requestsMade = 0
    /\ requestsFailed = 0
    /\ cacheReads = 0
    /\ lastResponse = NoResponse
    /\ cacheFile \in CacheFiles
    /\ fetched = <<>>
    /\ fetchSettled = "pending"
    /\ filterInput = <<>>
    /\ countryFilter \in CountryFilters
    /\ cityFilter \in CityFilters
    /\ filtered = <<>>
    /\ filterPc = "called"

OutsideFetchServers == <<runVars, statusVars, cliVars, compareVars, mainVars, historyVars>>

NextFetchServers ==
    \/ CallFetchServersFromAPI /\ UNCHANGED <<OutsideFetchServers, filterVars, cachingVars>>
    \/ \E response \in Responses :
          GetAnswers(response) /\ UNCHANGED <<OutsideFetchServers, filterVars, cachingVars>>
    \/ RetryTimerFires /\ UNCHANGED <<OutsideFetchServers, filterVars, cachingVars>>
    \/ CacheAnswers /\ UNCHANGED <<OutsideFetchServers, filterVars, cachingVars>>
    \/ \E written \in BOOLEAN :
          FetchServersContinues(written) /\ UNCHANGED OutsideFetchServers
    \/ \E country \in CountryFilters, city \in CityFilters :
          CallFetchServers(country, city) /\ UNCHANGED OutsideFetchServers

SpecFetchServers == InitFetchServers /\ [][NextFetchServers]_vars

(***************************************************************************)
(* saveToHistory called again and again: the directory starts with the     *)
(* files of earlier seconds, and the setting is any the schema accepts.    *)
(***************************************************************************)
InitHistory ==
    /\ RunIdle
    /\ StatusIdle
    /\ CliIdle
    /\ FetchIdle
    /\ FetchServersIdle
    /\ CompareIdle
    /\ FilterIdle
    /\ MainIdle
    /\ historyDir \in SUBSET {Pad2(t) : t \in (FirstSecond - EarlierSaves)..(FirstSecond - 1)}
    /\ historyLimit \in 1..MaxKept
    /\ historyClock = FirstSecond
    /\ saveCount = 0
    /\ lastSaved = <<>>
    /\ lastDeleted = {}
    /\ lastOutcome = NoOutcome

OutsideHistory ==
    <<runVars, statusVars, cliVars, fetchVars, cachingVars, compareVars, filterVars, mainVars>>

NextHistory ==
    \/ \E written \in BOOLEAN, unlinks \in 0..(Cardinality(historyDir) + 1) :
          saveToHistory(written, unlinks) /\ UNCHANGED OutsideHistory
    \/ HistoryTick /\ UNCHANGED OutsideHistory

SpecHistory == InitHistory /\ [][NextHistory]_vars

(***************************************************************************)
(* Vocabulary of the properties.                                           *)
(***************************************************************************)
\* a result is an outcome of a reachable server when the probe was alive
Reachable(o) == o.status \in {"good", "medium", "bad"}
Unreachable(o) == o.status = "unreachable"
\* the probe tasks that were started and have not produced their outcome
InFlight == {i \in Indices : pc[i] = "attempting"}
Produced == {i \in Indices : pc[i] = "done"}
\* the record of endpoint i carries no address to probe
NoAddress(i) == ~servers[i].hasIP
\* every probe call made for endpoint i so far has failed
AlwaysFailed(i) == probeCalls[i] >= 1 /\ probeFails[i] = probeCalls[i]

(***************************************************************************)
(* C1: during a run of pingAllServers the number of probe tasks in flight  *)
(* (started, outcome not yet produced) never exceeds the effective         *)
(* concurrency limit.                                                      *)
(***************************************************************************)
C1_InFlightWithinLimit ==
    runState # "init" =>
        /\ concurrency >= 1
        /\ Cardinality(InFlight) <= concurrency

\* the limit is reached while further servers wait in the queue
C1_Witness ==
    /\ concurrency >= 2
    /\ Cardinality(InFlight) = concurrency
    /\ queue # <<>>

(***************************************************************************)
(* C2: a run completes only after every input server has produced its      *)
(* outcome, and returns exactly one outcome per input server, in a result  *)
(* as long as the input.                                                   *)
(***************************************************************************)
C2_OneOutcomePerServer ==
    runState = "returned" =>
        /\ Len(results) = Len(servers)
        /\ \A i \in Indices :
              /\ pc[i] = "done"
              /\ results[i].status # "none"
              /\ results[i] = outcome[i]
              /\ results[i].hostname = servers[i].hostname

\* a run over several servers has returned, the last server having
\* produced its outcome before the first one
C2_Witness ==
    /\ runState = "returned"
    /\ Len(servers) >= 2
    /\ results[Len(servers)].timestamp < results[1].timestamp

(***************************************************************************)
(* C3: a probe call that throws, a probe call that answers not alive, or   *)
(* a server record without a usable address never makes pingServer reject  *)
(* nor pingAllServers abort: the run returns an outcome for every server,  *)
(* and the failing server's outcome is unreachable.                        *)
(***************************************************************************)
C3_FailuresContained ==
    /\ runState # "rejected"
    /\ \A i \in Indices : pc[i] # "rejected"
    /\ runState = "returned" =>
          \A i \in Indices :
              /\ results[i].status # "none"
              /\ (NoAddress(i) \/ AlwaysFailed(i)) =>
                     Unreachable(results[i])

\* a returned run with a server without address, a server whose probes all
\* failed, and a server that answered
C3_Witness ==
    /\ runState = "returned"
    /\ \E i, j, k \in Indices :
          /\ NoAddress(i)
          /\ AlwaysFailed(j)
          /\ Reachable(results[k])

(***************************************************************************)
(* C4: a probe task whose probe fails on every call makes exactly          *)
(* PING_RETRIES + 1 probe calls, then resolves with an unreachable         *)
(* outcome, and never rejects.                                             *)
(***************************************************************************)
C4_ExhaustedAfterAllRetries ==
    \A i \in Indices :
        /\ pc[i] # "rejected"
        /\ probeCalls[i] <= config.PING_RETRIES + 1
        /\ (pc[i] = "done" /\ AlwaysFailed(i)) =>
              /\ probeCalls[i] = config.PING_RETRIES + 1
              /\ Unreachable(outcome[i])

\* a task has used up a positive number of retries
C4_Witness ==
    \E i \in Indices :
        /\ pc[i] = "done"
        /\ AlwaysFailed(i)
        /\ config.PING_RETRIES >= 1
        /\ probeCalls[i] = config.PING_RETRIES + 1

(***************************************************************************)
(* C5 as stated: every outcome is produced after at least 1 and at most    *)
(* PING_RETRIES + 1 probe calls for its server.                            *)
(***************************************************************************)
C5_Original ==
    \A i \in Produced :
        /\ probeCalls[i] >= 1
        /\ probeCalls[i] <= config.PING_RETRIES + 1

(***************************************************************************)
(* C5 amended: the outcome of a server with a usable address is produced   *)
(* after at least 1 and at most PING_RETRIES + 1 probe calls, the outcome  *)
(* of a server without one after no probe call at all; the first alive     *)
(* answer ends the task as reachable, and no probe call is made for a      *)
(* server once its outcome exists.                                         *)
(***************************************************************************)
C5_AttemptsPerOutcome ==
    /\ [](\A i \in Produced :
            /\ ~NoAddress(i) =>
                  /\ probeCalls[i] >= 1
                  /\ probeCalls[i] <= config.PING_RETRIES + 1
            /\ NoAddress(i) =>
                  /\ probeCalls[i] = 0
                  /\ Unreachable(outcome[i])
            /\ Reachable(outcome[i]) <=> probeCalls[i] = probeFails[i] + 1)
    /\ [][\A i \in Produced :
            /\ i \in Produced'
            /\ probeCalls'[i] = probeCalls[i]
            /\ outcome'[i] = outcome[i]]_vars

\* a server that answered at its second call, next to a server without
\* address that got its outcome
C5_Witness ==
    \E i, j \in Produced :
        /\ Reachable(outcome[i])
        /\ probeCalls[i] = 2
        /\ NoAddress(j)

(***************************************************************************)
(* C6 as stated: a reachable outcome has a latency that is present and     *)
(* non-negative; an unreachable outcome has no latency and a packetLoss    *)
(* of 100.                                                                 *)
(***************************************************************************)
C6_Original ==
    \A i \in Produced :
        /\ Reachable(outcome[i]) =>
              (outcome[i].ping # NULL /\ outcome[i].ping >= 0)
        /\ Unreachable(outcome[i]) =>
              (outcome[i].ping = NULL /\ outcome[i].packetLoss = 100)

(***************************************************************************)
(* C6 amended: a reachable outcome has a latency that is present and       *)
(* non-negative; an unreachable outcome has a packetLoss of 100, and its   *)
(* latency is absent (null) when the TypeScript PingService made it and    *)
(* the number 9999 when pingService.js made it.                            *)
(***************************************************************************)
C6_OutcomeShape ==
    \A i \in Produced :
        /\ Reachable(outcome[i]) \/ Unreachable(outcome[i])
        /\ Reachable(outcome[i]) =>
              (outcome[i].ping # NULL /\ outcome[i].ping >= 0)
        /\ Unreachable(outcome[i]) =>
              /\ outcome[i].packetLoss = 100
              /\ impl = "ts" => outcome[i].ping = NULL
              /\ impl = "js" => outcome[i].ping = UNREACHABLE_PING

\* a reachable and an unreachable outcome have been produced
C6_Witness ==
    \E i, j \in Produced :
        /\ Reachable(outcome[i])
        /\ Unreachable(outcome[j])
        /\ AlwaysFailed(j)

(***************************************************************************)
(* C7: in the sorted result, of any two outcomes the earlier is reachable  *)
(* and the later unreachable, or both are reachable with ascending         *)
(* latency (or both are unreachable): no unreachable outcome precedes a    *)
(* reachable one, whatever the latencies.                                  *)
(***************************************************************************)
C7_SortedReachableFirst ==
    runState = "returned" =>
        \A a, b \in 1..Len(sortedResults) :
            a < b =>
                \/ Reachable(sortedResults[a]) /\ Unreachable(sortedResults[b])
                \/ /\ Reachable(sortedResults[a])
                   /\ Reachable(sortedResults[b])
                   /\ sortedResults[a].ping <= sortedResults[b].ping
                \/ Unreachable(sortedResults[a]) /\ Unreachable(sortedResults[b])

(***************************************************************************)
(* C8: outcomes of equal latency, and the unreachable outcomes among       *)
(* themselves, stand in the sorted result in the order of their servers    *)
(* in the input list, whatever the order in which the tasks completed.     *)
(***************************************************************************)
C8_StableOrder ==
    runState = "returned" =>
        /\ Len(sortedResults) = Len(servers)
        /\ \A a, b \in 1..Len(sortedResults) :
              (/\ a < b
               /\ \/ /\ Reachable(sortedResults[a])
                     /\ Reachable(sortedResults[b])
                     /\ sortedResults[a].ping = sortedResults[b].ping
                  \/ /\ Unreachable(sortedResults[a])
                     /\ Unreachable(sortedResults[b]))
              => sortedResults[a].hostname < sortedResults[b].hostname

\* two reachable outcomes of equal latency and two unreachable outcomes     
\* that were each produced in the reverse of the input order
C8_Witness ==
    /\ runState = "returned"
    /\ \E a, b \in 1..Len(sortedResults) :
          /\ a < b
          /\ Reachable(sortedResults[a])
          /\ Reachable(sortedResults[b])
          /\ sortedResults[a].ping = sortedResults[b].ping
          /\ sortedResults[a].timestamp > sortedResults[b].timestamp
          /\ \E c \in 1..Len(sortedResults) : Unreachable(sortedResults[c])

(***************************************************************************)
(* C9: the progress counters completed, successful and failed never        *)
(* decrease, completed never exceeds total, and completed = total when     *)
(* the run has returned.                                                   *)
(***************************************************************************)
C9_ProgressMonotone ==
    /\ [][/\ completed' >= completed
          /\ successful' >= successful
          /\ failed' >= failed]_vars
    /\ [](completed <= total \/ runState = "init")
    /\ [](runState = "returned" => completed = total)

\* a run over several servers has returned with both kinds of outcome counted
C9_Witness ==
    /\ runState = "returned"
    /\ total >= 2
    /\ completed = total
    /\ successful >= 1
    /\ failed >= 1

(***************************************************************************)
(* C10: in every state completed is the number of outcomes produced so     *)
(* far and completed = successful + failed, an outcome being counted as    *)
(* successful exactly when it is reachable and as failed exactly when it   *)
(* is unreachable.                                                         *)
(***************************************************************************)
C10_CountersMatchOutcomes ==
    /\ completed = Cardinality(Produced)
    /\ completed = successful + failed
    /\ successful = Cardinality({i \in Produced : Reachable(outcome[i])})
    /\ failed = Cardinality({i \in Produced : Unreachable(outcome[i])})

(***************************************************************************)
(* C11: the concurrency limit of a run is the smaller of CONCURRENT_PINGS  *)
(* and the effective thread maximum, which is MAX_THREADS when that is     *)
(* positive and twice the number of processing units otherwise.            *)
(***************************************************************************)
C11_LimitIsMinimum ==
    runState # "init" =>
        \E maxThreads \in {config.MAX_THREADS, 2 * CpuCount} :
            /\ maxThreads = config.MAX_THREADS <=> config.MAX_THREADS > 0
            /\ concurrency <= config.CONCURRENT_PINGS
            /\ concurrency <= maxThreads
            /\ concurrency \in {config.CONCURRENT_PINGS, maxThreads}

\* a run with the default thread maximum, which CONCURRENT_PINGS reaches
C11_Witness ==
    /\ runState = "running"
    /\ config.MAX_THREADS = 0
    /\ config.CONCURRENT_PINGS = 2 * CpuCount
    /\ concurrency = 2 * CpuCount
    /\ Cardinality(InFlight) = concurrency

(***************************************************************************)
(* C12: when the effective concurrency limit is not positive, the run is   *)
(* rejected before any probe task is started and before any probe call.    *)
(***************************************************************************)
C12_InvalidLimitRejected ==
    (runState # "init" /\ concurrency <= 0) =>
        /\ runState = "invalid"
        /\ activeCount = 0
        /\ \A i \in Indices : pc[i] = "queued" /\ probeCalls[i] = 0
        /\ completed = 0

\* a run over several servers was rejected for its limit
C12_Witness ==
    /\ runState = "invalid"
    /\ concurrency <= 0
    /\ Len(servers) >= 2
    /\ \E i \in Indices : ~NoAddress(i)

C14_StatisticsAddUp ==
    (runState = "returned" /\ impl = "ts") =>
        /\ statistics.totalServers = Len(results)
        /\ statistics.totalServers =
              statistics.reachableServers + statistics.unreachableServers
        /\ statistics.goodServers + statistics.mediumServers + statistics.badServers
              = statistics.reachableServers
        /\ statistics.reachableServers =
              Cardinality({i \in Indices : results[i].ping # NULL})

\* statistics over outcomes of every bucket
C14_Witness ==
    /\ runState = "returned"
    /\ impl = "ts"
    /\ statistics.goodServers >= 1
    /\ statistics.mediumServers >= 1
    /\ statistics.unreachableServers >= 1

(***************************************************************************)
(* C15: bestServer is a reachable outcome of smallest latency and          *)
(* worstServer a reachable outcome of largest latency, whatever the order  *)
(* of the outcomes; neither is an unreachable outcome, and both are absent *)
(* when no outcome is reachable.                                           *)
(***************************************************************************)
C15_BestAndWorst ==
    (runState = "returned" /\ impl = "ts") =>
        LET reach == {i \in Indices : Reachable(results[i])}
        IN  IF reach = {}
            THEN /\ statistics.bestServer = undefined
                 /\ statistics.worstServer = undefined
            ELSE /\ \E i \in reach : statistics.bestServer = results[i]
                 /\ \E i \in reach : statistics.worstServer = results[i]
                 /\ \A i \in reach :
                       /\ statistics.bestServer.ping <= results[i].ping
                       /\ statistics.worstServer.ping >= results[i].ping

(***************************************************************************)
(* C16: getPingStatus gives 'good' below 50, 'medium' from 50 to 100       *)
(* inclusive and 'bad' above 100.                                          *)
(***************************************************************************)
C16_StatusBands ==
    pingStatus # "none" =>
        /\ pingStatus = "good" <=> timeArg < 50
        /\ pingStatus = "medium" <=> (50 <= timeArg /\ timeArg <= 100)
        /\ pingStatus = "bad" <=> timeArg > 100

(***************************************************************************)
(* C17 as stated: the outcomes of a run are handed over in the order in    *)
(* which their probe tasks completed.                                      *)
(***************************************************************************)
C17_Original ==
    runState = "returned" =>
        \A a, b \in 1..Len(results) :
            a < b => results[a].timestamp < results[b].timestamp

(***************************************************************************)
(* C17 amended: pingAllServers hands the outcomes over in the order of the *)
(* input list, whatever the order in which the probe tasks completed.      *)
(***************************************************************************)
C17_InputOrder ==
    runState = "returned" =>
        \A a, b \in 1..Len(results) :
            a < b => results[a].hostname < results[b].hostname

\* the first server of three completed last
C17_Witness ==
    /\ runState = "returned"
    /\ Len(results) >= 3
    /\ results[1].timestamp = Len(results) - 1
    /\ results[2].timestamp = 0

(***************************************************************************)
(* C18: when the caller cancels a run after k of n outcomes, the run       *)
(* returns, without error and without hanging, a partial result made of    *)
(* exactly those k outcomes.                                               *)
(***************************************************************************)
C18_PartialResultOnCancel ==
    cancelledAt # -1 =>
        /\ runState = "returned"
        /\ Len(results) = cancelledAt
        /\ \A a \in 1..Len(results) : results[a].status # "none"

\* C19: a setting given on the command line is the setting the run that
\* follows works with, in the fetch stage and in the probe tasks alike.
C19_CliSettingsUsed ==
    cliPc = "ran" =>
        /\ argv.timeout # "" => used.timeout = ParseInt(argv.timeout)
        /\ argv.retries # "" => used.retries = ParseInt(argv.retries)
        /\ argv.parallel # "" => used.parallel = ParseInt(argv.parallel)
        /\ argv.country # "" => used.country = argv.country
        /\ argv.city # "" => used.city = argv.city

\* C20: fetchServersFromAPI has one request outstanding at a time, makes at
\* most retries + 1 of them, and makes none after the first that answers 200,
\* whose body it returns.
C20_RequestsBounded ==
    /\ fetchPc \in {"idle", "requesting", "waiting", "readingCache", "returned"} =>
          /\ requestsMade <= retriesArg + 1
          /\ requestsMade - requestsFailed = IF fetchPc = "requesting" THEN 1
                ELSE IF fetchPc = "returned" /\ cacheReads = 0 THEN 1 ELSE 0
    /\ (fetchPc = "returned" /\ cacheReads = 0) =>
          /\ lastResponse.kind = "resolved" /\ lastResponse.status = StatusOK
          /\ fetched = lastResponse.data
    /\ (fetchPc = "returned" /\ cacheReads > 0) =>
          /\ requestsMade = retriesArg + 1
          /\ requestsFailed = requestsMade
          /\ cacheReads = 1

\* the third request answers after two failures
C20_Witness ==
    /\ fetchPc = "returned"
    /\ cacheReads = 0
    /\ requestsMade = 3
    /\ requestsFailed = 2
    /\ retriesArg = MaxFetchRetries
    /\ fetched = <<1, 2>>

\* C21: fetchServersFromAPI reads the cache at most once, only when
\* retries + 1 requests have failed and no retry is left, never after a
\* request answered 200, and returns the list the cache holds.
C21_CacheLastResort ==
    /\ cacheReads <= 1
    /\ cacheReads = 1 =>
          /\ requestsFailed = retriesArg + 1
          /\ fetchRetriesLeft = 0
          /\ ~(lastResponse.kind = "resolved" /\ lastResponse.status = StatusOK)
    /\ fetchPc = "readingCache" => cacheReads = 1
    /\ (fetchPc = "returned" /\ cacheReads = 1 /\ cacheFile.state = "ok") =>
          fetched = cacheFile.servers
    /\ (fetchPc = "returned" /\ cacheReads = 0) =>
          (lastResponse.kind = "resolved" /\ lastResponse.status = StatusOK)

\* every request of a call with retries left failed and the cache answered
C21_Witness ==
    /\ fetchPc = "returned"
    /\ retriesArg = 2
    /\ requestsFailed = 3
    /\ cacheReads = 1
    /\ cacheFile.state = "ok"
    /\ fetched = <<1, 2>>

\* C22: fetchServersFromAPI never rejects; when every request failed and
\* the cache cannot be loaded it resolves with the empty list.
C22_NeverRejects ==
    /\ fetchSettled # "rejected"
    /\ fetchPc = "returned" => fetchSettled = "fulfilled"
    /\ (fetchPc = "returned" /\ cacheReads = 1 /\ cacheFile.state # "ok") =>
          fetched = <<>>

\* the API failed throughout and there is no cache file
C22_Witness ==
    /\ fetchPc = "returned"
    /\ requestsFailed = retriesArg + 1
    /\ retriesArg > 0
    /\ cacheFile.state = "missing"
    /\ fetchSettled = "fulfilled"
    /\ fetched = <<>>

\* the hostnames a list holds
Hostnames(list) == {list[k].hostname : k \in DOMAIN list}

\* the class the comparison is to give a current server, where a server is
\* taken as unreachable by its status or by its ping being the sentinel
ExpectedClass(current, previous, byStatus) ==
    LET ks == {k \in DOMAIN previous : previous[k].hostname = current.hostname}
        p == previous[CHOOSE k \in ks : TRUE]
        IsUnreachable(r) == IF byStatus THEN r.status = "unreachable"
                            ELSE r.ping = UNREACHABLE_PING
    IN  IF ks = {} THEN "new"
        ELSE IF IsUnreachable(current) \/ IsUnreachable(p) THEN "skipped"
        ELSE IF current.ping - p.ping <= -UNCHANGED_BELOW THEN "improved"
        ELSE IF current.ping - p.ping >= UNCHANGED_BELOW THEN "degraded"
        ELSE "unchanged"

\* the comparison holds every current server in the list of its class and in
\* no other, 'removed' is the previous hostnames that are gone, and the counts
\* with the skipped servers add up to the number of current servers
ClassesAgree(byStatus) ==
    LET previous == previousResults.items
        skipped == {i \in DOMAIN currentResults :
                      ExpectedClass(currentResults[i], previous, byStatus) = "skipped"}
    IN  /\ \A i \in DOMAIN currentResults :
              \A class \in {"new", "improved", "degraded", "unchanged"} :
                  currentResults[i].hostname \in Hostnames(comparison[class])
                  <=> ExpectedClass(currentResults[i], previous, byStatus) = class
        /\ Hostnames(comparison.removed) = Hostnames(previous) \ Hostnames(currentResults)
        /\ Len(comparison.removed) = Cardinality(Hostnames(comparison.removed))
        /\ comparison.totalServers = Len(currentResults)
        /\ Len(comparison.new) + Len(comparison.improved) + Len(comparison.degraded)
             + Len(comparison.unchanged) + Cardinality(skipped)
           = comparison.totalServers

KeptByFilters(server) ==
    LET codes == {toLowerCase(trim(c)) : c \in Members(split(countryFilter))}
        entries == {toLowerCase(trim(c)) : c \in Members(split(cityFilter))}
    IN  /\ countryFilter # <<>> => toLowerCase(server.country_code) \in codes
        /\ cityFilter # <<>> =>
              \E entry \in entries : includes(toLowerCase(server.city_name), entry)

\* C24: filterServers returns, in input order, exactly the servers the
\* filters that are set keep, all of them when no filter is set, and leaves
\* the list it was given as it was.
C24_FilterExact ==
    /\ [](filterPc = "done" =>
            /\ filtered = SelectSeq(filterInput, KeptByFilters)
            /\ (countryFilter = <<>> /\ cityFilter = <<>>) => filtered = filterInput)
    /\ [][filterInput' = filterInput]_vars

\* both filters set, the first server of two dropped by the country filter
\* and the second kept by both
C24_Witness ==
    /\ filterPc = "done"
    /\ countryFilter = <<"S", "E">>
    /\ cityFilter = <<"S", "T">>
    /\ Len(filterInput) = 2
    /\ filterInput[1].hostname = 3
    /\ filterInput[2].hostname = 1
    /\ filtered = <<filterInput[2]>>

\* C25: when every prober call is answered, every endpoint is eventually
\* admitted and eventually has its outcome, and the run eventually returns;
\* endpoints are admitted in input order, so that at any time the admitted
\* endpoints are the first ones of the input.
C25_NoStarvation ==
    /\ \A i \in 1..MaxServers : <>(i \in Indices => pc[i] = "done")
    /\ <>(runState = "returned")
    /\ [](\A i \in Indices : \A j \in Indices :
            (i < j /\ pc[j] # "queued") => pc[i] # "queued")

\* the last of more endpoints than slots has its outcome after a retry
C25_Witness ==
    /\ runState = "returned"
    /\ Len(servers) = MaxServers
    /\ concurrency < Len(servers)
    /\ pc[Len(servers)] = "done"
    /\ probeCalls[Len(servers)] = 2

\* C26: an endpoint is handled by one probe task, and it never has two
\* prober calls in flight: each call of it but the latest has been answered.
C26_OneProbeAtATime ==
    /\ \A i \in Indices :
          /\ launches[i] <= 1
          /\ probesInFlight[i] <= 1
          /\ probesInFlight[i] = 1 <=> pc[i] = "attempting"
          /\ pc[i] # "queued" => launches[i] = 1
    /\ runState = "returned" =>
          \A i \in Indices : launches[i] = 1 /\ probesInFlight[i] = 0

\* two endpoints are probed at once, one of them in its second attempt
C26_Witness ==
    /\ runState = "running"
    /\ \E i \in Indices : \E j \in Indices :
          /\ i # j
          /\ probesInFlight[i] = 1 /\ probeCalls[i] = 2 /\ probeFails[i] = 1
          /\ probesInFlight[j] = 1

\* C27: a task holds one slot from its launch to its outcome, retries
\* included, and gives it back once: the slots held are those of the tasks
\* in flight, never more than the limit, and none is held when the run returns.
C27_SlotsAccounted ==
    /\ activeCount = Cardinality(InFlight)
    /\ runState \in {"running", "returned"} =>
          /\ activeCount <= concurrency
          /\ (concurrency - activeCount) + Cardinality(InFlight) = concurrency
    /\ runState = "returned" => activeCount = 0

\* a task keeps its slot across a retry while another task waits
C27_Witness ==
    /\ runState = "running"
    /\ activeCount = concurrency
    /\ queue # <<>>
    /\ \E i \in InFlight : probeCalls[i] = 2


\* C28: in an execution of main the previous results are loaded before the
\* results are saved, so that the baseline is never the results of the
\* execution itself; the baseline is the results of the latest earlier
\* execution that saved a file.
C28_BaselineIsPreviousRun ==
    /\ [](mainPc \in {"compared", "saved"} => (baseline # runNo /\ baseline < runNo))
    /\ [](mainPc = "compared" => baseline = lastSavedRun)
    /\ [][disk' # disk => (mainPc = "compared" /\ mainPc' = "saved")]_vars

\* the third execution compares with the second, which saved its file in the
\* same second as the first or in the next minute field
C28_Witness ==
    /\ mainPc = "compared"
    /\ runNo = 3
    /\ baseline = 2
    /\ Cardinality({f \in disk : ~f.latest}) = 2
    /\ \E f \in disk : ~f.latest /\ f.stamp[1] = 1


\* C29: fetchServers changes the cache file only by writing the non-empty
\* list it fetched, as fetched and whatever the filters of the call, so a
\* cache holding servers never comes to hold none.
C29_CacheOnlyFilled ==
    /\ [][cacheFile' # cacheFile =>
             /\ fetchPc = "returned"
             /\ fetched # <<>>
             /\ cacheFile' = [state |-> "ok", servers |-> fetched]]_vars
    /\ [][(cacheFile.state = "ok" /\ cacheFile.servers # <<>>) =>
             (cacheFile'.state = "ok" /\ cacheFile'.servers # <<>>)]_vars

\* a later call fetched an empty list under filters that keep nothing, and
\* the cache an earlier call wrote still holds its servers
C29_Witness ==
    /\ fetchRuns = 2
    /\ fetchPc = "done"
    /\ cacheWrites = 1
    /\ fetchSettled = "fulfilled"
    /\ fetched = <<>>
    /\ countryFilter = <<"d", "e", ",", " ", "S", "E">>
    /\ cacheFile = [state |-> "ok", servers |-> <<1, 2>>]


====
